---- MODULE Spec2Model ----
(***************************************************************************)
(* Model of opc_client_gui.py: the Tk controller (OpcClientGui), the       *)
(* background worker threads it launches (_run_asyncio_thread running      *)
(* opc_logger_loop) and the hourly CSV files the workers append to.        *)
(*                                                                         *)
(* One controller thread runs the Tk main loop; every click of "Start"     *)
(* creates a new daemon thread.  All threads of one process share the one  *)
(* threading.Event created in __init__.  Threads interleave at statement   *)
(* granularity; a worker step is one of the labelled program points below. *)
(***************************************************************************)
EXTENDS Integers, Sequences, FiniteSets, TLC

\* ---------------------------------------------------------------- bounds
MaxRuns == 2        \* threads one process may create (clicks of Start)
NumTags == 2        \* length of the catalog prefix that is modelled
MaxRows == 2        \* rows the disk holds before open()/write fail
MaxHour == 1        \* local hours that begin while the process runs

\* ------------------------------------------------------ program constants
DEFAULT_LOG_INTERVAL == 60
RECONNECT_DELAY == 10

TAG_NAMES ==
  << "Constant_Val", "Counter_Val", "Random_Val", "Sawtooth_Val", "Sinusoid_Val",
     "Square_Val", "Triangle_Val", "MyLevel_Gauge", "MySwitch_State", "Generic_Double" >>

Runs == 1..MaxRuns
Tags == 1..NumTags
\* Local hours (the %Y-%m-%d_%H of a file name), counted from the hour in which
\* the process starts.
Hours == 0..MaxHour

\* list(TAG_NODES.keys()) restricted to the modelled prefix
TagCatalog == SubSeq(TAG_NAMES, 1, NumTags)

\* Optional readings: a value v read from a node is <<v>>, Python's None is <<>>.
None == << >>
Some(v) == << v >>

\* The header row and a data row as handed to csv.writer.writerow.
Header ==
  [hdr |-> TRUE,
   cells |-> << "Timestamp (24hr IST)", "Timestamp (epochtime UTC)" >> \o TagCatalog]

\* int(now_utc_for_epoch.timestamp()) for the clock reading h (whole hours).
EpochOf(h) == h * 3600

DataRow(formatted_timestamp, epoch_time, vals) ==
  [hdr |-> FALSE, cells |-> << formatted_timestamp, epoch_time >> \o vals]

\* ------------------------------------------------------------ int(text)
\* Texts of the interval entry are sequences of one-character strings.
DigitChars == << "0", "1", "2", "3", "4", "5", "6", "7", "8", "9" >>

IsDigit(c) == \E d \in 1..10 : DigitChars[d] = c

DigitVal(c) == (CHOOSE d \in 1..10 : DigitChars[d] = c) - 1

RECURSIVE LStrip(_)
LStrip(s) == IF s # << >> /\ Head(s) = " " THEN LStrip(Tail(s)) ELSE s

RECURSIVE RStrip(_)
RStrip(s) ==
  IF s # << >> /\ s[Len(s)] = " " THEN RStrip(SubSeq(s, 1, Len(s) - 1)) ELSE s

RECURSIVE DigitsValue(_)
DigitsValue(s) ==
  IF s = << >> THEN 0
  ELSE DigitsValue(SubSeq(s, 1, Len(s) - 1)) * 10 + DigitVal(s[Len(s)])

\* Python's int(str): surrounding blanks are ignored, one optional sign, then
\* one or more decimal digits; anything else raises ValueError.
ParseInt(text) ==
  LET t == RStrip(LStrip(text))
      signed == t # << >> /\ Head(t) \in {"-", "+"}
      body == IF signed THEN Tail(t) ELSE t
      wellFormed == body # << >> /\ \A i \in 1..Len(body) : IsDigit(body[i])
  IN IF ~wellFormed THEN [ok |-> FALSE, val |-> 0]
     ELSE [ok |-> TRUE,
           val |-> IF signed /\ Head(t) = "-" THEN 0 - DigitsValue(body)
                   ELSE DigitsValue(body)]

\* str(DEFAULT_LOG_INTERVAL), the text the interval entry is created with
DefaultIntervalText == << "6", "0" >>

\* Texts an operator may type into the interval entry.
IntervalTexts ==
  { DefaultIntervalText, << " ", "+", "6", "0", " " >>, << "0" >>, << "-", "1" >>,
    << "1", ".", "5" >>, << >> }

\* Texts an operator may type into the server URL entry.
DEFAULT_SERVER_URL == "opc.tcp://127.0.0.1:53530/OPCUA/SimulationServer"
UrlTexts == { DEFAULT_SERVER_URL, "" }


\* ---------------------------------------------------------------- state
VARIABLES
  start_button,      \* "normal" | "disabled"; both entries share this state
  stop_button,       \* "normal" | "disabled"
  stop_event,        \* the one threading.Event of the controller: is_set()
  logger_thread,     \* 0 for None, else the run whose Thread the field holds
  asyncio_loop,      \* 0 for None, else the run whose event loop the field holds
  after_queue,       \* runs whose master.after(0, _reset_gui_buttons) is pending
  gui_pc,            \* "mainloop" | "joining" (inside join) | "destroyed"
  messagebox,        \* the dialog the controller's last handler showed, or "none"
  gui_log,           \* records the controller's last handler gave to app_logger
  w_log,             \* per run: level of the record above INFO that its thread's
                     \* last step gave to app_logger, or "none"
  resets,            \* per run: calls of _reset_gui_buttons made on its behalf
  stop_requested,    \* runs for which the controller has set the stop event
  pc,                \* per run: program point of its thread
  w_interval,        \* per run: log_interval argument
  w_now,             \* per run: now_local of the current iteration (its hour)
  file_exists,       \* per run: result of os.path.isfile(filename)
  buf,               \* per run: rows written to the open file, not yet flushed
  sleepLeft,         \* per run: seconds left of the asyncio.sleep in progress
  files,             \* per hour: whether OPC_Log_<hour>.csv exists, and its rows
  clock              \* the local hour the system clock is in

gui == << start_button, stop_button, logger_thread, asyncio_loop,
          after_queue, gui_pc, resets >>
shared == << stop_event, stop_requested >>
out == << messagebox, gui_log, w_log >>
locals == << w_interval, w_now, file_exists, buf, sleepLeft >>
env == << files, clock >>

\* datetime.now(IST_TIMEZONE), as the local hour it lies in.
LocalHour == clock
vars == << gui, shared, out, pc, locals, env >>

Msg(level, text) == [level |-> level, text |-> text]

\* threading.Thread.is_alive() of run w
IsAlive(w) == pc[w] \notin {"none", "done", "killed"}

NoFile == [exists |-> FALSE, rows |-> << >>]

Init ==
  /\ start_button = "normal"
  /\ stop_button = "disabled"
  /\ stop_event = FALSE
  /\ logger_thread = 0
  /\ asyncio_loop = 0
  /\ after_queue = << >>
  /\ gui_pc = "mainloop"
  /\ messagebox = "none"
  /\ gui_log = << Msg("INFO", "GUI started. Ready for configuration.") >>
  /\ w_log = [w \in Runs |-> "none"]
  /\ resets = [w \in Runs |-> 0]
  /\ stop_requested = {}
  /\ pc = [w \in Runs |-> "none"]
  /\ w_interval = [w \in Runs |-> 0]
  /\ w_now = [w \in Runs |-> 0]
  /\ file_exists = [w \in Runs |-> FALSE]
  /\ buf = [w \in Runs |-> << >>]
  /\ sleepLeft = [w \in Runs |-> 0]
  /\ files = [h \in Hours |-> NoFile]
  /\ clock = 0

\* ----------------------------------------------------------- controller
\* A sign test that lets zero through (">= 0" written for "> 0").
IntervalAccepted_ZeroAllowed(text) == ParseInt(text).ok /\ ParseInt(text).val >= 0

\* The try block of start_logging: int() of the entry and the sign test.
IntervalAccepted(text) == ParseInt(text).ok /\ ParseInt(text).val > 0

\* start_logging, the command of the Start button, with the texts url and text
\* that the two entries hold when it is clicked.
start_logging(url, text) ==
  /\ gui_pc = "mainloop"
  /\ start_button = "normal"
  /\ IF ~IntervalAccepted(text)
     THEN /\ messagebox' = "showerror: Invalid Input"
          /\ gui_log' = << >>
          /\ UNCHANGED << gui, shared, w_log, pc, locals, env >>
     ELSE /\ \E w \in Runs :
               /\ pc[w] = "none"
               /\ \A v \in Runs : v < w => pc[v] # "none"
               /\ start_button' = "disabled"
               /\ stop_button' = "normal"
               /\ stop_event' = FALSE
               /\ logger_thread' = w
               /\ pc' = [pc EXCEPT ![w] = "begin"]
               /\ w_interval' = [w_interval EXCEPT ![w] = ParseInt(text).val]
          /\ messagebox' = "none"
          /\ gui_log' = << Msg("INFO", "Logger started.") >>
          /\ UNCHANGED << asyncio_loop, after_queue, gui_pc, resets,
                          stop_requested, w_log, w_now,
                          file_exists, buf, sleepLeft, env >>

\* stop_logging, the command of the Stop button: sets the event and calls
\* _reset_gui_buttons at once.
stop_logging ==
  /\ gui_pc = "mainloop"
  /\ stop_button = "normal"
  /\ stop_event' = TRUE
  /\ stop_requested' = stop_requested \cup {logger_thread}
  /\ start_button' = "normal"
  /\ stop_button' = "disabled"
  /\ resets' = [resets EXCEPT ![logger_thread] = @ + 1]
  /\ messagebox' = "none"
  /\ gui_log' = << Msg("INFO", "Stopping logger..."), Msg("INFO", "Status: Ready") >>
  /\ UNCHANGED << w_log, logger_thread, asyncio_loop, after_queue,
                  gui_pc, pc, locals, env >>

\* The main loop runs a callback a worker scheduled with master.after(0, ...).
after_callback ==
  /\ gui_pc = "mainloop"
  /\ after_queue # << >>
  /\ after_queue' = Tail(after_queue)
  /\ start_button' = "normal"
  /\ stop_button' = "disabled"
  /\ resets' = [resets EXCEPT ![Head(after_queue)] = @ + 1]
  /\ messagebox' = "none"
  /\ gui_log' = << Msg("INFO", "Status: Ready") >>
  /\ UNCHANGED << w_log, logger_thread, asyncio_loop, gui_pc,
                  shared, pc, locals, env >>

\* Runs whose thread is inside the async with block of a connected Client.
Connected == { w \in Runs : pc[w] \in {"inner", "stamp", "open", "batch", "sleep"} }

\* Runs whose thread is inside the with block of an open log file.
FileOpen == { w \in Runs : pc[w] = "batch" }

\* The files after the buffers of the runs in ws have reached the disk.
RECURSIVE Flushed(_, _)
Flushed(fs, ws) ==
  IF ws = {} THEN fs
  ELSE LET w == CHOOSE x \in ws : \A y \in ws : x <= y
       IN Flushed([fs EXCEPT ![w_now[w]].rows = @ \o buf[w]], ws \ {w})

\* master.destroy() ends root.mainloop() and the main thread, and the
\* interpreter exits: its daemon threads are stopped where they are.  What an
\* open file object of a stopped thread still buffers reaches the disk for
\* the runs in flushedRuns and is lost for the others.
ProcessExit(flushedRuns) ==
  /\ gui_pc' = "destroyed"
  /\ pc' = [w \in Runs |-> IF IsAlive(w) THEN "killed" ELSE pc[w]]
  /\ files' = Flushed(files, flushedRuns)
  /\ buf' = [w \in Runs |-> << >>]
  /\ w_now' = [w \in Runs |-> 0]
  /\ file_exists' = [w \in Runs |-> FALSE]
  /\ sleepLeft' = [w \in Runs |-> 0]
  /\ w_log' = [w \in Runs |-> "none"]
  /\ UNCHANGED << start_button, stop_button, logger_thread, asyncio_loop, after_queue,
                  resets, w_interval, clock >>

\* on_closing after the operator has answered OK to askokcancel, up to and
\* including the call of join (or, when the thread of logger_thread is not
\* alive, to the end).
on_closing(flushedRuns) ==
  /\ gui_pc = "mainloop"
  /\ messagebox' = "askokcancel: Quit"
  /\ IF logger_thread # 0 /\ IsAlive(logger_thread)
     THEN /\ flushedRuns = {}
          /\ stop_event' = TRUE
          /\ stop_requested' = stop_requested \cup {logger_thread}
          /\ gui_pc' = "joining"
          /\ gui_log' = << Msg("INFO", "Signaling background thread to stop...") >>
          /\ UNCHANGED << w_log, start_button, stop_button, logger_thread, asyncio_loop,
                          after_queue, resets, pc, locals, env >>
     ELSE /\ ProcessExit(flushedRuns)
          /\ gui_log' = << Msg("INFO", "Destroying GUI window.") >>
          /\ UNCHANGED shared

\* join(timeout) returns: the thread ended, or (timedOut) the timeout expired
\* with the thread still alive; then the rest of on_closing.
join_returns(timedOut, flushedRuns) ==
  /\ gui_pc = "joining"
  /\ timedOut = IsAlive(logger_thread)
  /\ messagebox' = "none"
  /\ gui_log' = IF timedOut
                THEN << Msg("WARNING", "Background thread did not terminate in time."),
                        Msg("INFO", "Destroying GUI window.") >>
                ELSE << Msg("INFO", "Destroying GUI window.") >>
  /\ ProcessExit(flushedRuns)
  /\ UNCHANGED shared

\* ----------------------------------------------------------------- worker
\* The locals now_local/filename and file_exists of an iteration are dead once
\* the iteration's with block is left (the next iteration assigns them before
\* it reads them); the steps that leave the block put them back to their
\* initial values.  The values list lives inside one step (sample_batch).
\* Outcomes of the awaits on the client.  "refused", "timeout" and "error" are
\* ConnectionRefusedError, asyncio.TimeoutError and any other Exception;
\* "lost" is the Exception a read raises on a connection that has gone away;
\* "cancelled" is asyncio.CancelledError, which is no Exception; "unresolved"
\* is a connect that succeeds followed by a client.get_node(node_id) that
\* raises for one tag of the catalog, inside the list comprehension.
ConnectOutcomes == {"ok", "refused", "timeout", "error", "unresolved", "cancelled"}
ReadOutcomes == {"ok", "error", "lost", "cancelled"}
IoOutcomes == {"ok", "io"}

\* The level of the log record of the except clause that catches a fault of
\* opc_logger_loop: info for CancelledError, error for the other three clauses.
FaultLevel(outcome) == IF outcome = "cancelled" THEN "none" ELSE "ERROR"

\* Except clauses that all end the loop with break.
AfterFault_AlwaysBreak(outcome) == "finish"

\* The program point after the except clause that catches outcome: break for
\* CancelledError, else on to the test before the reconnect sleep.
AfterFault(outcome) == IF outcome = "cancelled" THEN "finish" ELSE "retry"

RECURSIVE SumRows(_)
SumRows(hs) ==
  IF hs = {} THEN 0
  ELSE LET h == CHOOSE x \in hs : TRUE IN Len(files[h].rows) + SumRows(hs \ {h})

\* Rows on the disk; open() succeeds only while what the iteration is going to
\* write (a row, and a header for a new file) still fits.
RowsOnDisk == SumRows(Hours)
DiskHasRoom(w) == RowsOnDisk + (IF file_exists[w] THEN 1 ELSE 2) <= MaxRows

\* The one step of a thread: its program point moves to nxt and it hands the
\* record of level log (if above INFO) to app_logger; the controller is untouched.
Goto(w, nxt, log) ==
  /\ pc' = [pc EXCEPT ![w] = nxt]
  /\ w_log' = [w_log EXCEPT ![w] = log]
  /\ UNCHANGED << start_button, stop_button, logger_thread, gui_pc, resets, shared,
                  messagebox, gui_log, w_interval, clock >>

\* _run_asyncio_thread up to the first test of the outer loop: the thread's new
\* event loop is stored in the controller's field and starts to run.
thread_begin(w) ==
  /\ pc[w] = "begin"
  /\ asyncio_loop' = w
  /\ Goto(w, "outer", "none")
  /\ UNCHANGED << after_queue, w_now, file_exists, buf, sleepLeft, files >>

\* while not stop_event.is_set():   (outer loop)
outer_test(w) ==
  /\ pc[w] = "outer"
  /\ IF stop_event
     THEN Goto(w, "finish", "none")
     ELSE Goto(w, "connect", "none")
  /\ UNCHANGED << after_queue, asyncio_loop, w_now, file_exists, buf, sleepLeft, files >>

\* async with Client(url=server_url) as client, and the get_node list.  The
\* loop never looks at server_url itself; what the client makes of it is the
\* outcome.  No try stands between the get_node calls and the except clauses of
\* the outer loop: an exception of get_node leaves the async with block.
connect(w, outcome) ==
  /\ pc[w] = "connect"
  /\ IF outcome = "ok"
     THEN Goto(w, "inner", "none")
     ELSE Goto(w, AfterFault(outcome), FaultLevel(outcome))
  /\ UNCHANGED << after_queue, asyncio_loop, w_now, file_exists, buf, sleepLeft, files >>

\* while not stop_event.is_set():   (sampling loop); leaving it leaves the
\* async with block and arrives at the test before the reconnect sleep.
inner_test(w) ==
  /\ pc[w] = "inner"
  /\ Goto(w, IF stop_event THEN "retry" ELSE "stamp", "none")
  /\ UNCHANGED << after_queue, asyncio_loop, w_now, file_exists, buf, sleepLeft, files >>

\* now_local, formatted_timestamp, epoch_time, filename and os.path.isfile.
stamp(w) ==
  /\ pc[w] = "stamp"
  /\ w_now' = [w_now EXCEPT ![w] = LocalHour]
  /\ file_exists' = [file_exists EXCEPT ![w] = files[LocalHour].exists]
  /\ Goto(w, "open", "none")
  /\ UNCHANGED << after_queue, asyncio_loop, buf, sleepLeft, files >>

\* open(filename, "a") creates the file; the header goes to the file object's
\* buffer when isfile() had answered False.
open_file(w, outcome) ==
  /\ pc[w] = "open"
  /\ outcome = "ok" => DiskHasRoom(w)
  /\ IF outcome = "ok"
     THEN /\ files' = [files EXCEPT ![w_now[w]].exists = TRUE]
          /\ buf' = [buf EXCEPT ![w] = IF file_exists[w] THEN << >> ELSE << Header >>]
          /\ Goto(w, "batch", "none")
          /\ UNCHANGED << w_now, file_exists >>
     ELSE /\ Goto(w, AfterFault("error"), FaultLevel("error"))
          /\ w_now' = [w_now EXCEPT ![w] = 0]
          /\ file_exists' = [file_exists EXCEPT ![w] = FALSE]
          /\ UNCHANGED << buf, files >>
  /\ UNCHANGED << after_queue, asyncio_loop, sleepLeft >>

\* An except clause that logs the warning and appends nothing.
OnReadError_NothingAppended(vals) == vals

\* What the except clause of the per-tag try appends to values.
OnReadError(vals) == Append(vals, None)

\* A loop in which the first failed read ends the for loop (the try around the
\* loop instead of inside it): the tags after it are not read.
RECURSIVE ReadLoop_StopsAtError(_, _, _)
ReadLoop_StopsAtError(i, outs, vals) ==
  IF i > NumTags THEN [cancelled |-> FALSE, values |-> vals]
  ELSE IF outs[i] = "cancelled" THEN [cancelled |-> TRUE, values |-> vals]
  ELSE IF outs[i] = "ok" THEN ReadLoop_StopsAtError(i + 1, outs, Append(vals, Some(i)))
  ELSE [cancelled |-> FALSE, values |-> Append(vals, None)]

\* The for loop over tag_nodes_objs from tag i on, for the outcomes outs of the
\* awaited reads: the values list it builds, or "cancelled" when a read raises
\* CancelledError, which no clause inside the loop catches.
RECURSIVE ReadLoop(_, _, _)
ReadLoop(i, outs, vals) ==
  IF i > NumTags THEN [cancelled |-> FALSE, values |-> vals]
  ELSE IF outs[i] = "cancelled" THEN [cancelled |-> TRUE, values |-> vals]
  ELSE IF outs[i] = "ok" THEN ReadLoop(i + 1, outs, Append(vals, Some(i)))
  ELSE ReadLoop(i + 1, outs, OnReadError(vals))

\* A row that takes its timestamp when it is assembled, after the reads.
RowOf_StampedAtWrite(stampHour, vals) == DataRow(clock, EpochOf(clock), vals)

\* row = [formatted_timestamp, epoch_time] + values
RowOf(stampHour, vals) == DataRow(stampHour, EpochOf(stampHour), vals)

\* The level above INFO logged in one batch: a warning per failed read.
BatchLog(outs) ==
  IF \E i \in Tags : outs[i] \in {"error", "lost"} THEN "WARNING" ELSE "none"

\* A batch that writes what it has read so far when it is cancelled.
CancelledRows_PartialRow(stampHour, vals) == << RowOf(stampHour, vals) >>

\* What a batch cut short by CancelledError has handed to writer.writerow: the
\* row is assembled and written only after the for loop, so nothing.
CancelledRows(stampHour, vals) == << >>

\* The rest of the with block: values = [], the reads of all tags (awaits that
\* touch nothing but the thread's own values list), writer.writerow(row), the
\* log record, the end of the with block (the file is flushed and closed) and
\* the call of asyncio.sleep(log_interval).  outs are the outcomes of the
\* reads, io that of the write; a cancelled read ends the batch in the with
\* block's exit, which flushes what the buffer holds.
sample_batch(w, outs, io) ==
  /\ pc[w] = "batch"
  /\ LET res == ReadLoop(1, outs, << >>) IN
     IF res.cancelled
     THEN /\ files' = [files EXCEPT ![w_now[w]].rows =
                         @ \o buf[w] \o CancelledRows(w_now[w], res.values)]
          /\ Goto(w, AfterFault("cancelled"), FaultLevel("cancelled"))
          /\ UNCHANGED sleepLeft
     ELSE IF io = "ok"
     THEN /\ files' = [files EXCEPT ![w_now[w]].rows =
                         @ \o buf[w] \o << RowOf(w_now[w], res.values) >>]
          /\ sleepLeft' = [sleepLeft EXCEPT ![w] = w_interval[w]]
          /\ Goto(w, "sleep", BatchLog(outs))
     ELSE /\ Goto(w, AfterFault("error"), FaultLevel("error"))
          /\ UNCHANGED << sleepLeft, files >>
  /\ buf' = [buf EXCEPT ![w] = << >>]
  /\ w_now' = [w_now EXCEPT ![w] = 0]
  /\ file_exists' = [file_exists EXCEPT ![w] = FALSE]
  /\ UNCHANGED << after_queue, asyncio_loop >>

\* Time passes for a thread inside asyncio.sleep: first all but the last
\* second of the sleep, then the last second.
TimeLeftAfter(left) == IF left > 1 THEN 1 ELSE 0

\* await asyncio.sleep(log_interval): nothing but the timer ends it.
interval_sleep(w) ==
  /\ pc[w] = "sleep"
  /\ sleepLeft' = [sleepLeft EXCEPT ![w] = TimeLeftAfter(@)]
  /\ Goto(w, IF TimeLeftAfter(sleepLeft[w]) = 0 THEN "inner" ELSE "sleep", "none")
  /\ UNCHANGED << after_queue, asyncio_loop, w_now, file_exists, buf, files >>

\* if not stop_event.is_set(): await asyncio.sleep(RECONNECT_DELAY)  (the call)
retry_test(w) ==
  /\ pc[w] = "retry"
  /\ sleepLeft' = [sleepLeft EXCEPT ![w] = IF stop_event THEN @ ELSE RECONNECT_DELAY]
  /\ Goto(w, IF stop_event THEN "outer" ELSE "backoff", "none")
  /\ UNCHANGED << after_queue, asyncio_loop, w_now, file_exists, buf, files >>

\* await asyncio.sleep(RECONNECT_DELAY): nothing but the timer ends it.
reconnect_sleep(w) ==
  /\ pc[w] = "backoff"
  /\ sleepLeft' = [sleepLeft EXCEPT ![w] = TimeLeftAfter(@)]
  /\ Goto(w, IF TimeLeftAfter(sleepLeft[w]) = 0 THEN "outer" ELSE "backoff", "none")
  /\ UNCHANGED << after_queue, asyncio_loop, w_now, file_exists, buf, files >>

\* loop.is_running() of the event loop that run v created.
LoopRunning(v) == pc[v] \notin {"none", "begin", "done", "killed"}

\* self.asyncio_loop.close() in the thread of run w raises RuntimeError when the
\* field holds the running loop of a thread that began later.
CloseRaises(w) == asyncio_loop # w /\ LoopRunning(asyncio_loop)

\* The end of opc_logger_loop and the rest of _run_asyncio_thread: the loop in
\* the controller's field is closed and _reset_gui_buttons is scheduled on the
\* main loop, unless close() raised out of the finally clause.
thread_end(w) ==
  /\ pc[w] = "finish"
  /\ Goto(w, "done", "none")
  /\ IF CloseRaises(w)
     THEN UNCHANGED after_queue
     ELSE after_queue' = Append(after_queue, w)
  /\ UNCHANGED << asyncio_loop, w_now, file_exists, buf, sleepLeft, files >>

WorkerStep(w) ==
  \/ thread_begin(w)
  \/ outer_test(w)
  \/ \E o \in ConnectOutcomes : connect(w, o)
  \/ inner_test(w)
  \/ stamp(w)
  \/ \E o \in IoOutcomes : open_file(w, o)
  \/ \E outs \in [Tags -> ReadOutcomes], io \in IoOutcomes : sample_batch(w, outs, io)
  \/ interval_sleep(w)
  \/ retry_test(w)
  \/ reconnect_sleep(w)
  \/ thread_end(w)

Next ==
  \/ \E u \in UrlTexts, t \in IntervalTexts : start_logging(u, t)
  \/ stop_logging
  \/ after_callback
  \/ \E ws \in SUBSET FileOpen : on_closing(ws)
  \/ \E t \in BOOLEAN, ws \in SUBSET FileOpen : join_returns(t, ws)
  \/ \E w \in Runs : WorkerStep(w)

\* The behaviours in which the process lives within one local hour.
Spec == Init /\ [][Next]_vars

\* The system clock passes into the next local hour while the process runs.
tick ==
  /\ gui_pc # "destroyed"
  /\ clock < MaxHour
  /\ clock' = clock + 1
  /\ UNCHANGED << gui, shared, out, pc, locals, files >>

NextClock ==
  \/ Next
  \/ tick

\* The behaviours across the hours 0..MaxHour.
ClockSpec == Init /\ [][NextClock]_vars

\* Every thread that can take a step eventually takes one: the operating system
\* schedules each thread, and every await of the loop completes.
FairSpec == Spec /\ \A w \in Runs : WF_vars(WorkerStep(w))

TypeOK ==
  /\ pc \in [Runs -> {"none", "begin", "outer", "connect", "inner", "stamp", "open",
                      "batch", "sleep", "retry", "backoff", "finish", "done", "killed"}]
  /\ stop_event \in BOOLEAN
  /\ logger_thread \in 0..MaxRuns
  /\ asyncio_loop \in 0..MaxRuns
  /\ w_log \in [Runs -> {"none", "WARNING", "ERROR"}]
  /\ clock \in Hours
  /\ w_now \in [Runs -> Hours]

\* ------------------------------------------------------------------ claims
LiveWorkers == { w \in Runs : IsAlive(w) }

\* All rows of all files, and the data rows among them.
FileRows == UNION { { files[h].rows[i] : i \in 1..Len(files[h].rows) } : h \in Hours }
DataRows == { r \in FileRows : ~r.hdr }

\* C1: at every moment at most one worker that has not terminated exists.
C1_AtMostOneLiveWorker == Cardinality(LiveWorkers) <= 1

\* C2: when time passes for a worker that is in the inter-iteration sleep while
\* the stop signal is set, the worker has left the sleep afterwards (it does
\* not go on sleeping for what is left of the interval).
C2_StopInterruptsIntervalSleep ==
  [][\A w \in Runs :
       (pc[w] = "sleep" /\ stop_event /\ sleepLeft'[w] < sleepLeft[w])
         => pc'[w] # "sleep"]_vars

\* C3: for every run the reset callback is invoked exactly once: never twice,
\* and once the run's thread has ended and no callback of it is pending, once.
C3_ResetExactlyOncePerRun ==
  \A w \in Runs :
    /\ resets[w] <= 1
    /\ (pc[w] = "done" /\ \A i \in 1..Len(after_queue) : after_queue[i] # w)
         => resets[w] = 1

\* C4: every run for which the stop has been requested eventually terminates,
\* whatever the controller does afterwards.
C4_StoppedRunTerminates ==
  \A w \in Runs : (w \in stop_requested) ~> ~IsAlive(w)

\* C5: every connection fault, during connect or during sampling, takes the
\* worker out of Sampling to the test that leads (unless stopping) to the
\* reconnect wait; it never stays in the sampling loop and never terminates.
C5_ConnectionFaultLeadsToReconnect ==
  [][\A w \in Runs :
       \/ \E f \in {"refused", "timeout", "error"} : connect(w, f)
       \/ \E outs \in [Tags -> {"ok", "error", "lost"}] :
            /\ \E i \in Tags : outs[i] = "lost"
            /\ sample_batch(w, outs, "ok")
       => pc'[w] = "retry"]_vars

\* C6: every data row has the two timestamp fields and then exactly one entry
\* per catalog tag, in catalog order: the entry of tag i is tag i's reading or
\* the absent value.
C6_RowHasOneEntryPerTag ==
  \A r \in DataRows :
    /\ Len(r.cells) = 2 + NumTags
    /\ r.cells[1] \in Hours
    /\ r.cells[2] = EpochOf(r.cells[1])
    /\ \A i \in Tags : r.cells[2 + i] \in {None, Some(i)}

C6_Witness ==
  \E r \in DataRows : \E i, j \in Tags :
    i < j /\ r.cells[2 + i] = Some(i) /\ r.cells[2 + j] = None

\* C7: in every file the header is the first row and appears exactly once.
C7_HeaderFirstAndOnce ==
  \A h \in Hours :
    LET rows == files[h].rows IN
    rows # << >> => rows[1].hdr /\ \A i \in 2..Len(rows) : ~rows[i].hdr

\* C8: start with an empty source address is rejected with a validation error:
\* no thread is launched, the stop signal and the controller state are as before.
C8_EmptyAddressRejected ==
  [][\A t \in IntervalTexts :
       start_logging("", t)
         => /\ messagebox' = "showerror: Invalid Input"
            /\ UNCHANGED << pc, stop_event, start_button, stop_button >>]_vars

\* Interval texts that do not denote a positive whole number.
BadIntervalTexts == { << "0" >>, << "-", "1" >>, << "1", ".", "5" >>, << >> }

\* C9: start with an interval that is no positive whole number shows the error
\* dialog and has no other effect: no thread, no change of the stop signal or
\* of the controller, nothing handed to the log sink.
C9_BadIntervalRejected ==
  [][\A u \in UrlTexts, t \in BadIntervalTexts :
       start_logging(u, t)
         => /\ messagebox' = "showerror: Invalid Input"
            /\ gui_log' = << >>
            /\ UNCHANGED << gui, shared, w_log, pc, locals, env >>]_vars

C9_Witness ==
  /\ messagebox = "showerror: Invalid Input"
  /\ gui_log = << >>
  /\ start_button = "normal"

\* The last row of the file of hour h.
LastRow(fs, h) == fs[h].rows[Len(fs[h].rows)]

\* C10: a batch in which reads fail (and none is cancelled, and the write
\* succeeds) still reads every other tag and writes its row, one row more in
\* the file, with the absent value exactly in the columns of the failed reads,
\* and the worker goes on in the sampling loop (to the inter-iteration sleep).
C10_ReadErrorIsolated ==
  [][\A w \in Runs : \A outs \in [Tags -> {"ok", "error", "lost"}] :
       ((\E i \in Tags : outs[i] # "ok") /\ sample_batch(w, outs, "ok"))
         => /\ pc'[w] = "sleep"
            /\ Len(files'[w_now[w]].rows) = Len(files[w_now[w]].rows) + Len(buf[w]) + 1
            /\ LET row == LastRow(files', w_now[w]) IN
               /\ ~row.hdr
               /\ Len(row.cells) = 2 + NumTags
               /\ \A i \in Tags :
                    row.cells[2 + i] = IF outs[i] = "ok" THEN Some(i) ELSE None]_vars

C10_Witness ==
  \E w \in Runs : \E r \in DataRows : \E i, j \in Tags :
    /\ i < j /\ r.cells[2 + i] = None /\ r.cells[2 + j] = Some(j)
    /\ pc[w] = "sleep" /\ w_log[w] = "WARNING"

\* A row as long as the header: the two timestamps and one field per tag.
FullRow(r) == r = Header \/ (~r.hdr /\ Len(r.cells) = 2 + NumTags)

C12_ShutdownSetsStopAndWaits ==
  [][/\ ((\E w \in Runs : IsAlive(w)) /\ \E ws \in SUBSET FileOpen : on_closing(ws))
          => (stop_event' /\ gui_pc' = "joining")
     /\ (\E ws \in SUBSET FileOpen : join_returns(TRUE, ws))
          => /\ \E k \in 1..Len(gui_log') : gui_log'[k].level = "WARNING"
             /\ gui_pc' = "destroyed"]_vars

\* C13: when time passes for a worker that is in the reconnect wait while the
\* stop signal is set, the worker has left the wait afterwards (it does not
\* wait out what is left of RECONNECT_DELAY).
C13_StopInterruptsReconnectWait ==
  [][\A w \in Runs :
       (pc[w] = "backoff" /\ stop_event /\ sleepLeft'[w] < sleepLeft[w])
         => pc'[w] # "backoff"]_vars

\* C14: no step of the controller unsets the stop signal while a worker that
\* was started before that step has not terminated.
C14_StopNeverClearedForLiveWorker ==
  [][(stop_event /\ ~stop_event') => \A w \in Runs : ~IsAlive(w)]_vars

\* The worker is at the test before the reconnect wait and has come there from
\* the test of the sampling loop, which found the stop signal set: every except
\* clause that leads to this test logs an error, the loop's test logs nothing.
LeftSamplingByStop(w) == pc[w] = "retry" /\ w_log[w] = "none"

\* C15: a worker that has left the sampling loop because it observed the stop
\* signal does not go into the reconnect wait; a cancelled worker goes straight
\* to its end; the reconnect wait is entered only after a fault and only with
\* the stop signal not set.
C15_NoReconnectWaitAfterStop ==
  [][\A w \in Runs :
       /\ (LeftSamplingByStop(w) /\ retry_test(w)) => pc'[w] # "backoff"
       /\ (\/ connect(w, "cancelled")
           \/ \E outs \in [Tags -> ReadOutcomes], io \in IoOutcomes :
                /\ \E i \in Tags : outs[i] = "cancelled"
                /\ sample_batch(w, outs, io))
            => pc'[w] = "finish"
       /\ (pc[w] # "backoff" /\ pc'[w] = "backoff")
            => (~stop_event /\ ~LeftSamplingByStop(w))]_vars

\* C16: a fault of open() or of the write of the row is handled like a
\* connection fault: the worker leaves the async with block (the connection is
\* released), logs at error level and is still alive at the test before the
\* reconnect wait; from there, the stop signal not being set, it waits
\* RECONNECT_DELAY, and after the wait it is at the head of the outer loop,
\* which, the stop signal not being set, leads to the next connect.
C16_IoFaultLikeConnectionFault ==
  [][\A w \in Runs :
       /\ (\/ open_file(w, "io")
           \/ \E outs \in [Tags -> {"ok", "error", "lost"}] : sample_batch(w, outs, "io"))
            => /\ pc'[w] = "retry"
               /\ w_log'[w] = "ERROR"
               /\ w \notin Connected'
               /\ IsAlive(w)'
               /\ \A h \in Hours : files'[h].rows = files[h].rows
       /\ (pc[w] = "retry" /\ w_log[w] = "ERROR" /\ ~stop_event /\ retry_test(w))
            => (pc'[w] = "backoff" /\ sleepLeft'[w] = RECONNECT_DELAY)
       /\ (pc[w] = "backoff" /\ reconnect_sleep(w) /\ pc'[w] # "backoff")
            => pc'[w] = "outer"
       /\ (pc[w] = "outer" /\ ~stop_event /\ outer_test(w))
            => pc'[w] = "connect"]_vars

\* A lone worker after a failed write: the file it opened exists and holds no
\* row, the error is logged and the worker is at the test before the wait.
C16_Witness ==
  \E w \in Runs :
    /\ pc[w] = "retry" /\ w_log[w] = "ERROR"
    /\ \A v \in Runs \ {w} : pc[v] = "none"
    /\ files[0] = [exists |-> TRUE, rows |-> << >>]

\* C17: when, after a successful connect, the address of one tag cannot be
\* resolved to a node, the connection is kept and the worker enters the
\* sampling loop.
C17_ResolutionFailureNotFatal ==
  [][\A w \in Runs : connect(w, "unresolved") => pc'[w] = "inner"]_vars

C19_RunningWhileWorkerLive ==
  \A w \in Runs :
    (IsAlive(w) /\ w \notin stop_requested)
      => (stop_button = "normal" /\ start_button = "disabled")

====
